---- MODULE Spec2Model ----
(***************************************************************************)
(* Model of the HTTP backend in src/main.py: the startup seed hook, the    *)
(* Stripe checkout and webhook handlers, the Google OAuth callback and     *)
(* the stub location listing, over the document store they share.          *)
(*                                                                         *)
(* Every handler runs to completion as one action.  The document store     *)
(* (module `database`), the Stripe SDK and the Google token endpoint are   *)
(* external: their answers are inputs of the actions.                      *)
(***************************************************************************)
EXTENDS Integers, Sequences, FiniteSets, TLC

VARIABLES
    stripe,                 \* TRUE iff `import stripe` succeeded (main.py:11-14)
    STRIPE_SECRET_KEY,      \* "" when unset (main.py:30)
    STRIPE_WEBHOOK_SECRET,  \* "" when unset (main.py:31)
    GOOGLE_CLIENT_ID,       \* "" when unset (main.py:245)
    GOOGLE_CLIENT_SECRET,   \* "" when unset (main.py:246)
    GOOGLE_REDIRECT_URI,    \* "" when unset (main.py:247)
    db,                     \* TRUE iff database.db is not None
    docs,                   \* collection name -> sequence of documents
    pre,                    \* docs as they were when the last handler began
    call,                   \* the last handler invoked, with its inputs
    resp,                   \* what the last handler returned or raised
    seedLog,                \* one entry per run of seed_plans
    accepted                \* events of the verified, persisted-type deliveries
                            \* whose store write did not fail, in order

config == <<stripe, STRIPE_SECRET_KEY, STRIPE_WEBHOOK_SECRET,
            GOOGLE_CLIENT_ID, GOOGLE_CLIENT_SECRET, GOOGLE_REDIRECT_URI, db>>

vars == <<stripe, STRIPE_SECRET_KEY, STRIPE_WEBHOOK_SECRET,
          GOOGLE_CLIENT_ID, GOOGLE_CLIENT_SECRET, GOOGLE_REDIRECT_URI, db,
          docs, pre, call, resp, seedLog, accepted>>

----------------------------------------------------------------------------
(* Bounds *)

MaxEvents == 2

MaxConns == 1

MaxSeedRuns == 2

----------------------------------------------------------------------------
(* Values *)

Collections == {"plan", "stripeevent", "googleconnection"}

SAMPLE_PLANS ==
    << [name |-> "Starter", price_cents |-> 1900, interval |-> "month",
        stripe_price_id |-> "price_XXXX_starter",
        features |-> <<"Connect 1 Google Business Profile", "Basic analytics",
                       "Email support">>],
       [name |-> "Growth", price_cents |-> 4900, interval |-> "month",
        stripe_price_id |-> "price_XXXX_growth",
        features |-> <<"Connect up to 5 locations", "Posts & hours management",
                       "Priority support">>] >>

PersistedTypes ==
    {"checkout.session.completed", "customer.subscription.created",
     "customer.subscription.updated", "customer.subscription.deleted"}

\* Event types the provider may deliver: the four the handler stores and one
\* it does not.
EventTypes == PersistedTypes \cup {"invoice.paid"}

Payloads == [type : EventTypes, data : [object : {"obj_1"}]]

\* The provider's signing scheme: a signature binds a secret to a raw body.
Sign(secret, payload) == <<secret, payload>>

\* The body a tampering party turns a signed body into.
Tampered(payload) ==
    [payload EXCEPT !.type = IF @ = "invoice.paid"
                             THEN "customer.subscription.deleted"
                             ELSE "invoice.paid"]

\* stripe-signature header values a delivery of `payload` may carry: none, the
\* sender's signature of this body under the endpoint's secret or under
\* another secret, or a signature of the body before it was tampered with.
SigHeaders(payload) ==
    {<< >>, Sign("whsec", payload), Sign("other", payload),
     Sign("whsec", Tampered(payload))}

\* Token responses of the identity provider.
TokenResponses ==
    {[access_token |-> "at_1", scope |-> "sc_1"],
     [access_token |-> "at_2", refresh_token |-> "rt_1", scope |-> "sc_1"]}

\* HTTP statuses the token endpoint may answer with.
ProviderStatuses == {200, 204, 401, 500}

IsSuccessStatus(s) == s >= 200 /\ s < 300

----------------------------------------------------------------------------
(* Document store adapter *)

\* A store call fails when no connection exists or the driver raises.
StoreFails(fault) == ~db \/ fault

\* create_document(name, data): the collections after the insert.
create_document(d, name, data) == [d EXCEPT ![name] = Append(@, data)]

\* get_documents(name)
get_documents(d, name) == d[name]

----------------------------------------------------------------------------
(* Responses *)

Ok(body) == [status |-> 200, body |-> body]

HTTPException(code, detail) == [status |-> code, body |-> [detail |-> detail]]

\* An exception no handler catches: the framework answers 500.
Unhandled == [status |-> 500, body |-> [detail |-> "Internal Server Error"]]

\* The framework rejects a body that does not fit the request schema.
ValidationError == [status |-> 422, body |-> [detail |-> "validation error"]]

NoResponse == [status |-> 0, body |-> [detail |-> "none"]]

----------------------------------------------------------------------------
Init ==
    /\ stripe \in BOOLEAN
    /\ STRIPE_SECRET_KEY \in {"", "sk_test"}
    /\ STRIPE_WEBHOOK_SECRET \in {"", "whsec"}
    /\ GOOGLE_CLIENT_ID \in {"", "client_id"}
    /\ GOOGLE_CLIENT_SECRET \in {"", "client_secret"}
    /\ GOOGLE_REDIRECT_URI \in {"", "https://app/cb"}
    /\ db \in BOOLEAN
    /\ docs = [c \in Collections |-> << >>]
    /\ pre = [c \in Collections |-> << >>]
    /\ call = [op |-> "none"]
    /\ resp = NoResponse
    /\ seedLog = << >>
    /\ accepted = << >>

----------------------------------------------------------------------------
(* seed_plans, main.py:144-152 *)

\* Seeding without the emptiness guard.
SeedNeeded_Always(count) == TRUE

\* main.py:148
SeedNeeded(count) == count = 0

\* The plans the loop inserts before a failing insert stops it: faults[i]
\* says whether the i-th create_document raises.
RECURSIVE SeedInserted(_, _)
SeedInserted(i, faults) ==
    IF i > Len(SAMPLE_PLANS) \/ StoreFails(faults[i])
    THEN << >>
    ELSE <<SAMPLE_PLANS[i]>> \o SeedInserted(i + 1, faults)

seed_plans ==
    /\ Len(seedLog) < MaxSeedRuns
    /\ \E countFault \in BOOLEAN, faults \in [1..Len(SAMPLE_PLANS) -> BOOLEAN] :
          LET count == Len(docs["plan"])
              ins == IF ~db \/ countFault \/ ~SeedNeeded(count)
                     THEN << >>
                     ELSE SeedInserted(1, faults)
              clean == /\ db
                       /\ ~countFault
                       /\ \A i \in 1..Len(SAMPLE_PLANS) : ~faults[i]
          IN  /\ docs' = [docs EXCEPT !["plan"] = @ \o ins]
              /\ seedLog' = Append(seedLog, [clean |-> clean, inserted |-> Len(ins)])
              /\ call' = [op |-> "seed_plans"]
              /\ resp' = NoResponse
    /\ pre' = docs
    /\ UNCHANGED <<config, accepted>>

----------------------------------------------------------------------------
(* create_checkout_session, main.py:177-193 *)

\* The guard with the credential check dropped.
StripeConfigured_SdkOnly == stripe

\* main.py:179
StripeConfigured == stripe /\ STRIPE_SECRET_KEY # ""

create_checkout_session ==
    /\ \E wellFormed \in BOOLEAN :
       LET reached == wellFormed /\ StripeConfigured
       IN  \E providerOk \in (IF reached THEN BOOLEAN ELSE {FALSE}) :
              /\ call' = [op |-> "create_checkout_session",
                          wellFormed |-> wellFormed,
                          providerCalled |-> reached]
              /\ resp' = IF ~wellFormed THEN ValidationError
                         ELSE IF ~StripeConfigured
                              THEN HTTPException(400, "Stripe not configured")
                         ELSE IF providerOk
                              THEN Ok([id |-> "cs_1", url |-> "https://checkout/cs_1"])
                         ELSE HTTPException(400, "provider error")
    /\ pre' = docs
    /\ UNCHANGED <<config, docs, seedLog, accepted>>

----------------------------------------------------------------------------
(* stripe_webhook, main.py:210-239 *)

\* The guard with the secret check dropped.
WebhookDevMode_SdkOnly == ~stripe

\* main.py:212: the handler skips verification.
WebhookDevMode == ~stripe \/ STRIPE_WEBHOOK_SECRET = ""

\* A verification that checks the secret but not the body it signs.
construct_event_AnyBody(payload, sig_header, secret) ==
    sig_header # << >> /\ sig_header[1] = secret

\* stripe.Webhook.construct_event: TRUE iff it returns the event, FALSE iff it
\* raises.  A missing header never verifies.
construct_event(payload, sig_header, secret) == sig_header = Sign(secret, payload)

\* A handler that stores every verified event.
IsPersistedType_All(t) == TRUE

\* main.py:227-232
IsPersistedType(t) ==
    t \in {"checkout.session.completed", "customer.subscription.created",
           "customer.subscription.updated", "customer.subscription.deleted"}

EventDoc(event) == [type |-> event.type, data |-> event.data.object]

\* An insert that skips an event already recorded.
StoreEvent_Dedup(d, event, fault) ==
    IF StoreFails(fault) THEN d
    ELSE IF \E i \in 1..Len(d["stripeevent"]) :
                d["stripeevent"][i] = [type |-> event.type, data |-> event.data.object]
         THEN d
         ELSE [d EXCEPT !["stripeevent"] =
                   Append(@, [type |-> event.type, data |-> event.data.object])]

\* main.py:233-237: the collections after the guarded insert.
StoreEvent(d, event, fault) ==
    IF StoreFails(fault) THEN d
    ELSE create_document(d, "stripeevent", EventDoc(event))

\* A handler that lets the insert's exception escape.
WebhookAck_Propagate(failed) ==
    IF failed THEN [status |-> 500, body |-> [detail |-> "Internal Server Error"]]
    ELSE [status |-> 200, body |-> [received |-> TRUE]]

\* main.py:234-239: what the handler answers once the event is verified;
\* failed says whether the insert raised.
WebhookAck(failed) == Ok([received |-> TRUE])

stripe_webhook ==
    /\ Len(docs["stripeevent"]) < MaxEvents
    /\ \E payload \in Payloads :
       \E sig \in SigHeaders(payload) :
       LET skip == WebhookDevMode
           ok == ~skip /\ construct_event(payload, sig, STRIPE_WEBHOOK_SECRET)
           store == ok /\ IsPersistedType(payload.type)
           sigValid == /\ STRIPE_WEBHOOK_SECRET # ""
                       /\ sig = Sign(STRIPE_WEBHOOK_SECRET, payload)
       IN  \E fault \in (IF store THEN BOOLEAN ELSE {FALSE}) :
              /\ call' = [op |-> "stripe_webhook", payload |-> payload,
                          sig |-> sig, verifyAttempted |-> ~skip,
                          sigValid |-> sigValid, storeCalled |-> store,
                          fault |-> fault]
              /\ docs' = IF store THEN StoreEvent(docs, payload, fault) ELSE docs
              /\ resp' = IF skip THEN Ok([received |-> TRUE, skipped |-> TRUE])
                         ELSE IF ~ok THEN HTTPException(400, "signature error")
                         ELSE WebhookAck(store /\ StoreFails(fault))
              /\ accepted' = IF /\ stripe
                                /\ sigValid
                                /\ payload.type \in PersistedTypes
                                /\ ~StoreFails(fault)
                             THEN Append(accepted, payload)
                             ELSE accepted
    /\ pre' = docs
    /\ UNCHANGED <<config, seedLog>>

----------------------------------------------------------------------------
(* google_oauth_callback, main.py:282-306 *)

OAuthConfigured ==
    /\ GOOGLE_CLIENT_ID # ""
    /\ GOOGLE_CLIENT_SECRET # ""
    /\ GOOGLE_REDIRECT_URI # ""

\* A check that treats only server errors as failure.
ExchangeFailed_ServerErrorsOnly(status_code) == status_code >= 500

\* main.py:298
ExchangeFailed(status_code) == status_code # 200

\* A redaction that names the one field it hides.
MaskTokens_AccessOnly(tokens) ==
    [k \in DOMAIN tokens |-> IF k = "access_token" THEN "***" ELSE tokens[k]]

\* main.py:306
MaskTokens(tokens) ==
    [k \in DOMAIN tokens |-> IF k = "scope" THEN tokens[k] ELSE "***"]

\* main.py:302-305: the collections after the guarded insert.
StoreTokens(d, tokens, fault) ==
    IF StoreFails(fault) THEN d
    ELSE create_document(d, "googleconnection", tokens)

google_oauth_callback ==
    /\ Len(docs["googleconnection"]) < MaxConns
    /\ \E wellFormed \in BOOLEAN :
       LET asked == wellFormed /\ OAuthConfigured
       IN  \E status \in (IF asked THEN ProviderStatuses ELSE {0}) :
           LET exchanged == asked /\ ~ExchangeFailed(status)
           IN  \E tokens \in (IF exchanged THEN TokenResponses ELSE {<< >>}),
                  fault \in (IF exchanged THEN BOOLEAN ELSE {FALSE}) :
              /\ call' = [op |-> "google_oauth_callback", code |-> "abc",
                          wellFormed |-> wellFormed, providerAsked |-> asked,
                          status |-> status, tokens |-> tokens,
                          storeCalled |-> exchanged, fault |-> fault]
              /\ docs' = IF exchanged THEN StoreTokens(docs, tokens, fault) ELSE docs
              /\ resp' = IF ~wellFormed THEN ValidationError
                         ELSE IF ~OAuthConfigured
                              THEN HTTPException(400, "Google OAuth not configured")
                         ELSE IF ExchangeFailed(status)
                              THEN HTTPException(400, "Failed to exchange code")
                         ELSE Ok([connected |-> TRUE, tokens |-> MaskTokens(tokens)])
    /\ pre' = docs
    /\ UNCHANGED <<config, seedLog, accepted>>

----------------------------------------------------------------------------
(* list_google_locations, main.py:309-322 *)

DemoLocations ==
    << [name |-> "Demo Location A", storeCode |-> "A001"],
       [name |-> "Demo Location B", storeCode |-> "B002"] >>

LocationsOf(conns) ==
    IF conns = << >>
    THEN Ok([connected |-> FALSE, locations |-> << >>])
    ELSE Ok([connected |-> TRUE, locations |-> DemoLocations])

list_google_locations ==
    /\ \E fault \in BOOLEAN :
          /\ call' = [op |-> "list_google_locations", fault |-> fault]
          /\ resp' = IF StoreFails(fault) THEN Unhandled
                     ELSE LocationsOf(get_documents(docs, "googleconnection"))
    /\ pre' = docs
    /\ UNCHANGED <<config, docs, seedLog, accepted>>

----------------------------------------------------------------------------
Next ==
    \/ seed_plans
    \/ create_checkout_session
    \/ stripe_webhook
    \/ google_oauth_callback
    \/ list_google_locations

Spec == Init /\ [][Next]_vars

\* The subsystems write disjoint collections (each action's UNCHANGED shows
\* it), so each is also checked alone, with larger reach per collection.

\* Plan Catalog Service: successive startups.
NextCatalog == seed_plans

SpecCatalog == Init /\ [][NextCatalog]_vars

\* Payments Gateway Integration.
NextPayments ==
    \/ create_checkout_session
    \/ stripe_webhook

SpecPayments == Init /\ [][NextPayments]_vars

\* Identity OAuth Integration.
NextIdentity ==
    \/ google_oauth_callback
    \/ list_google_locations

SpecIdentity == Init /\ [][NextIdentity]_vars

----------------------------------------------------------------------------
(* Properties *)

IsPrefix(s, t) == Len(s) <= Len(t) /\ SubSeq(t, 1, Len(s)) = s

Webhook == call.op = "stripe_webhook"

\* The delivery was checked by the handler and its signature is the
\* endpoint secret's signature of the body delivered.
VerifiedDelivery == Webhook /\ call.verifyAttempted /\ call.sigValid

C2_OnlyVerifiedPersistedTypesStored ==
    /\ \A i \in 1..Len(docs["stripeevent"]) :
          /\ docs["stripeevent"][i].type \in PersistedTypes
          /\ \E j \in 1..Len(accepted) :
                docs["stripeevent"][i] = EventDoc(accepted[j])
    /\ docs["stripeevent"] # pre["stripeevent"] => VerifiedDelivery
    /\ (VerifiedDelivery /\ call.payload.type \notin PersistedTypes) =>
          /\ resp = [status |-> 200, body |-> [received |-> TRUE]]
          /\ docs = pre

C2_Witness ==
    /\ VerifiedDelivery
    /\ call.payload.type = "invoice.paid"
    /\ Len(docs["stripeevent"]) >= 1
    /\ resp.status = 200

\* C3: a verified delivery whose store write fails, the store being
\* unavailable or the insert raising, is still answered {received: true}.
C3_AckDespiteStoreFailure ==
    VerifiedDelivery =>
        /\ resp = [status |-> 200, body |-> [received |-> TRUE]]
        /\ (call.storeCalled /\ (~db \/ call.fault)) => docs = pre

C3_Witness ==
    /\ VerifiedDelivery
    /\ call.storeCalled
    /\ db
    /\ call.fault
    /\ resp.status = 200
    /\ resp.body.received

\* C4: with no signing secret configured every delivery, whatever its body
\* and signature header, is answered {received: true, skipped: true} and no
\* signature verification is attempted.
C4_NoSecretSkips ==
    (Webhook /\ STRIPE_WEBHOOK_SECRET = "") =>
        /\ resp = [status |-> 200, body |-> [received |-> TRUE, skipped |-> TRUE]]
        /\ ~call.verifyAttempted
        /\ docs = pre

C4_Witness ==
    /\ Webhook
    /\ STRIPE_WEBHOOK_SECRET = ""
    /\ stripe
    /\ call.sig = << >>
    /\ resp.body = [received |-> TRUE, skipped |-> TRUE]

OAuthCallback == call.op = "google_oauth_callback"

SecretFields == {"access_token", "refresh_token"}

\* C6: the tokens echoed by a successful exchange have the fields of the
\* provider's response, every one but scope replaced by "***" and scope
\* echoed as it is, so that no field carries the value of access_token or
\* refresh_token.
C6_EchoedTokensMasked ==
    (OAuthCallback /\ resp.status = 200) =>
        LET t == call.tokens
            m == resp.body.tokens
        IN  /\ DOMAIN m = DOMAIN t
            /\ \A k \in DOMAIN m :
                  /\ k # "scope" => m[k] = "***"
                  /\ k = "scope" => m[k] = t[k]
                  /\ \A f \in SecretFields \cap DOMAIN t : m[k] # t[f]

C6_Witness ==
    /\ OAuthCallback
    /\ resp.status = 200
    /\ "refresh_token" \in DOMAIN call.tokens
    /\ resp.body.tokens.scope = call.tokens.scope

\* C7: with OAuth fully configured, a token exchange the provider answers
\* with a non-success status fails with HTTP 400 "Failed to exchange code"
\* and leaves every collection as it was.
C7_FailedExchangeStoresNothing ==
    (/\ OAuthCallback
     /\ call.wellFormed
     /\ GOOGLE_CLIENT_ID # ""
     /\ GOOGLE_CLIENT_SECRET # ""
     /\ GOOGLE_REDIRECT_URI # ""
     /\ ~IsSuccessStatus(call.status)) =>
        /\ resp = [status |-> 400, body |-> [detail |-> "Failed to exchange code"]]
        /\ docs = pre

C7_Witness ==
    /\ OAuthCallback
    /\ call.providerAsked
    /\ call.status = 401
    /\ resp.status = 400
    /\ db

Checkout == call.op = "create_checkout_session"

\* C8 as stated: with no provider credential configured every checkout
\* request, well-formed or not, fails with HTTP 400 "Stripe not configured"
\* and no provider call is made.
C8_NoCredentialAlwaysConfigError ==
    (Checkout /\ STRIPE_SECRET_KEY = "") =>
        /\ resp = [status |-> 400, body |-> [detail |-> "Stripe not configured"]]
        /\ ~call.providerCalled

\* C8 amended: with no provider credential configured every well-formed
\* checkout request fails with HTTP 400 "Stripe not configured"; a malformed
\* one is rejected by request validation before the handler runs; in both
\* cases no provider call is made.
C8_NoCredentialConfigErrorIfWellFormed ==
    (Checkout /\ STRIPE_SECRET_KEY = "") =>
        /\ call.wellFormed =>
              resp = [status |-> 400, body |-> [detail |-> "Stripe not configured"]]
        /\ ~call.wellFormed => resp.status = 422
        /\ ~call.providerCalled

C8_Witness ==
    /\ Checkout
    /\ STRIPE_SECRET_KEY = ""
    /\ stripe
    /\ call.wellFormed
    /\ resp.status = 400

\* C9: list_google_locations answers connected=false with no locations when
\* the googleconnection collection holds no record, and connected=true with
\* the two placeholder locations otherwise.
C9_LocationsFollowConnections ==
    call.op = "list_google_locations" =>
        IF docs["googleconnection"] = << >>
        THEN resp = [status |-> 200,
                     body |-> [connected |-> FALSE, locations |-> << >>]]
        ELSE resp = [status |-> 200,
                     body |-> [connected |-> TRUE, locations |-> DemoLocations]]

\* C10: the stripeevent collection holds exactly one document per verified
\* delivery of a persisted type made with a working store, in delivery
\* order, repeated deliveries included; no handler changes or removes a
\* document already stored.
C10_OneDocumentPerDelivery ==
    /\ Len(docs["stripeevent"]) = Len(accepted)
    /\ \A i \in 1..Len(accepted) :
          i <= Len(docs["stripeevent"]) =>
              docs["stripeevent"][i] = EventDoc(accepted[i])
    /\ IsPrefix(pre["stripeevent"], docs["stripeevent"])

C10_Witness ==
    /\ Len(accepted) >= 2
    /\ accepted[1] = accepted[2]
    /\ Len(docs["stripeevent"]) = Len(accepted)
    /\ docs["stripeevent"][1] = docs["stripeevent"][2]

====
